---- MODULE Spec2Model ----
(***************************************************************************)
(* Two agent-based simulations of the repository:                          *)
(*   - InflationModel (src/Midterm_2): households, firms and a central     *)
(*     bank activated in random order once per tick;                        *)
(*   - SchellingModel (src/Midterms/Midterm_1/schelling): agents on a      *)
(*     toroidal grid that move when unsatisfied.                            *)
(*                                                                         *)
(* Numbers.  Python floats are modelled as fixed-point integers: rates,    *)
(* ratios and price levels in units of 1/Scale (0.05 is 500), money        *)
(* amounts (income, savings, production, demand) in hundredths (100.0 is   *)
(* 10000).  A product or quotient is rounded to the nearest unit; the       *)
(* price_index_numerator, a sum of price x production, keeps the unit of   *)
(* the product, 1/(100 * Scale), so that dividing it by a production gives *)
(* a price level in units of 1/Scale.                                      *)
(***************************************************************************)
EXTENDS Integers, Sequences, FiniteSets, TLC

VARIABLES macro, schelling, twin

vars == <<macro, schelling, twin>>

(***************************************************************************)
(* Bounds of the model.                                                    *)
(***************************************************************************)
\* households plus firms of an InflationModel
MaxPopulation == 2
\* calls of step() on one model
MaxTicks == 2
\* cells of the grid of a SchellingModel
MaxCells == 4

(***************************************************************************)
(* Fixed-point arithmetic.                                                 *)
(***************************************************************************)
Scale == 10^4

Max(a, b) == IF a >= b THEN a ELSE b
Min(a, b) == IF a <= b THEN a ELSE b
Abs(a) == IF a < 0 THEN -a ELSE a

\* a / b rounded to the nearest integer (b # 0)
RDiv(a, b) ==
    LET n == IF b < 0 THEN -a ELSE a
        d == IF b < 0 THEN -b ELSE b
        q == n \div d
    IN  IF 2 * (n - q * d) >= d THEN q + 1 ELSE q

\* x * r for a factor r given in units of 1/Scale
Mul(x, r) == RDiv(x * r, Scale)

\* a / b as a ratio in units of 1/Scale
Ratio(a, b) == RDiv(a * Scale, b)

RECURSIVE SetSum(_, _)
SetSum(f, S) ==
    IF S = {} THEN 0
    ELSE LET x == CHOOSE y \in S : TRUE
         IN  f[x] + SetSum(f, S \ {x})

\* the object that is not constructed in this run
NoModel == [pc |-> "absent"]

(***************************************************************************)
(* InflationModel: program constants (units of 1/Scale unless noted).      *)
(***************************************************************************)
INITIAL_INTEREST_RATE == 500
NOMINAL_RATE == 642
RATE_MIN == 100
RATE_MAX == 2000
CONSUMPTION_RATE == 8000
SUBSISTENCE_SHARE == 2000
UTILIZATION_MIN == 5000
UTILIZATION_MAX == 10000
INITIAL_UTILIZATION == 8000
PRICE_ADJ_MIN == -500
PRICE_ADJ_MAX == 1000
INFLATION_TARGET == 300
INITIAL_INFLATION == 800

\* configuration values and the random draws of the constructor
BankingInclusionRates == {6000}
FormalSectorSizes == {7000}
ShockSizes == {0, 200, -200}
\* The draws of the constructor for one household: np.random.random() for the
\* formality (u, in [0, 1)), np.random.normal(50, 15) for the base income and
\* np.random.normal(100, 30) for the savings, both in hundredths.  The normal
\* distribution has unbounded support, so a negative income is a value the
\* constructor can draw.
HouseholdDraws ==
    {[u |-> 2500, base_income |-> 8333, savings |-> 8333],
     [u |-> 9000, base_income |-> 5000, savings |-> 10000],
     [u |-> 9000, base_income |-> -1250, savings |-> 10000]}
\* The draws for one firm: np.random.random() for the formality and
\* np.random.normal(100, 20) for the base capacity, in hundredths.
FirmDraws ==
    {[u |-> 2500, base_capacity |-> 10000],
     [u |-> 9000, base_capacity |-> 2000]}

HouseholdIds(m) == 1 .. m.num_households
FirmIds(m) == (m.num_households + 1) .. (m.num_households + m.num_firms)
\* the central bank, then the households, then the firms
MacroAgents(m) == {0} \cup HouseholdIds(m) \cup FirmIds(m)

(***************************************************************************)
(* Derived accessors of InflationModel.                                    *)
(***************************************************************************)
MeanExpectation(m, hs) ==
    IF hs = {} THEN m.current_inflation
    ELSE RDiv(SetSum([h \in hs |-> m.households[h].expected_inflation], hs),
              Cardinality(hs))

get_average_inflation_expectation(m) == MeanExpectation(m, HouseholdIds(m))

\* the formal mean taken over every household
get_formal_inflation_expectation_Unfiltered(m) ==
    MeanExpectation(m, HouseholdIds(m))

get_formal_inflation_expectation(m) ==
    MeanExpectation(m, {h \in HouseholdIds(m) : m.households[h].formal})

get_informal_inflation_expectation(m) ==
    MeanExpectation(m, {h \in HouseholdIds(m) : ~m.households[h].formal})

\* one record of the model-level series of the DataCollector
MacroSnapshot(m) ==
    [Inflation |-> m.current_inflation,
     Interest_Rate |-> m.central_bank.interest_rate,
     Aggregate_Demand |-> m.aggregate_demand,
     Total_Production |-> m.total_production,
     Inflation_Gap |-> m.current_inflation - m.central_bank.inflation_target,
     Formal_Inflation_Expectation |-> get_formal_inflation_expectation(m),
     Informal_Inflation_Expectation |-> get_informal_inflation_expectation(m)]

\* a collector that keeps only the latest record
MacroCollect_Overwrite(m) == [m EXCEPT !.model_vars = <<MacroSnapshot(m)>>]

MacroCollect(m) == [m EXCEPT !.model_vars = Append(@, MacroSnapshot(m))]

(***************************************************************************)
(* Agents of InflationModel.                                               *)
(***************************************************************************)
Household_init(m, formal, savings, income) ==
    [formal |-> formal,
     savings |-> savings,
     income |-> income,
     consumption_rate |-> CONSUMPTION_RATE,
     expected_inflation |-> m.current_inflation,
     interest_rate_sensitivity |-> IF formal THEN 5000 ELSE 1000]

Firm_init(formal, production_capacity) ==
    [formal |-> formal,
     production_capacity |-> production_capacity,
     current_production |-> Mul(production_capacity, INITIAL_UTILIZATION),
     price_level |-> Scale,
     central_bank_influence |-> IF formal THEN 8000 ELSE 3000]

CentralBank_init(inflation_target) ==
    [inflation_target |-> inflation_target,
     interest_rate |-> INITIAL_INTEREST_RATE,
     taylor_inflation_weight |-> 15000,
     taylor_output_weight |-> 5000,
     nominal_rate |-> NOMINAL_RATE]

\* Household.step without the subsistence minimum
SubsistenceFloor_Missing(adjusted_consumption, income) == adjusted_consumption

\* adjusted_consumption of Household.step: the amount added to aggregate_demand
SubsistenceFloor(adjusted_consumption, income) ==
    Max(adjusted_consumption, Mul(income, SUBSISTENCE_SHARE))

\* Household.step with the interest effect added instead of subtracted
AdjustedConsumption_SignFlipped(m, h) ==
    LET hh == m.households[h]
        base_consumption == Mul(hh.income, hh.consumption_rate)
        interest_effect ==
            Mul(m.central_bank.interest_rate, hh.interest_rate_sensitivity)
    IN  SubsistenceFloor(Mul(base_consumption, Scale + interest_effect), hh.income)

AdjustedConsumption(m, h) ==
    LET hh == m.households[h]
        base_consumption == Mul(hh.income, hh.consumption_rate)
        interest_effect ==
            -Mul(m.central_bank.interest_rate, hh.interest_rate_sensitivity)
    IN  SubsistenceFloor(Mul(base_consumption, Scale + interest_effect), hh.income)

Household_step(m, h) ==
    LET hh == m.households[h]
        target_gap == m.central_bank.inflation_target - hh.expected_inflation
        adjustment_speed == IF hh.formal THEN 5000 ELSE 2000
        adjusted_consumption == AdjustedConsumption(m, h)
    IN  [m EXCEPT
            !.households[h].expected_inflation = @ + Mul(target_gap, adjustment_speed),
            !.households[h].savings = @ + hh.income - adjusted_consumption,
            !.aggregate_demand = @ + adjusted_consumption,
            !.consumption[h] = <<adjusted_consumption>>]

\* Firm.step without the bounds on the utilization
BoundUtilization_Missing(new_utilization) == new_utilization

\* max(0.5, min(new_utilization, 1.0))
BoundUtilization(new_utilization) ==
    Max(UTILIZATION_MIN, Min(new_utilization, UTILIZATION_MAX))

Firm_step(m, f) ==
    LET fm == m.firms[f]
        demand_pressure ==
            Ratio(m.aggregate_demand, m.total_production_capacity) - Scale
        capacity_change == Mul(demand_pressure, 1000)
        new_utilization ==
            BoundUtilization(
                Ratio(fm.current_production, fm.production_capacity) + capacity_change)
        current_production == Mul(fm.production_capacity, new_utilization)
        cost_push == Mul(Max(0, demand_pressure), 5000)
        expectation_effect == Mul(get_average_inflation_expectation(m), 3000)
        target_adjustment ==
            Mul(m.central_bank.inflation_target - m.current_inflation,
                fm.central_bank_influence)
        price_adjustment == cost_push + expectation_effect + target_adjustment
        bounded_adjustment == Max(PRICE_ADJ_MIN, Min(price_adjustment, PRICE_ADJ_MAX))
        price_level == Mul(fm.price_level, Scale + bounded_adjustment)
    IN  IF m.total_production_capacity = 0
        THEN [m EXCEPT !.pc = "raised"]
        ELSE [m EXCEPT
                !.firms[f].current_production = current_production,
                !.firms[f].price_level = price_level,
                !.total_production = @ + current_production,
                !.price_index_numerator = @ + current_production * price_level,
                !.demand_read[f] = <<m.aggregate_demand>>]

\* CentralBank.step without the bounds on the rate
BoundInterestRate_Missing(interest_rate) == interest_rate

\* max(0.01, min(interest_rate, 0.20))
BoundInterestRate(interest_rate) == Max(RATE_MIN, Min(interest_rate, RATE_MAX))

\* CentralBank.step whose error undoes the demand accumulated in the tick
CentralBank_step_RollsBack(m) ==
    LET cb == m.central_bank
        inflation_gap == m.current_inflation - cb.inflation_target
        output_gap == Ratio(m.aggregate_demand, m.total_production) - Scale
        target_rate ==
            cb.nominal_rate + m.current_inflation
            + Mul(inflation_gap, cb.taylor_inflation_weight)
            + Mul(output_gap, cb.taylor_output_weight)
        adjustment_speed == 5000
        interest_rate == cb.interest_rate + Mul(target_rate - cb.interest_rate, adjustment_speed)
    IN  IF m.total_production = 0
        THEN [m EXCEPT !.pc = "raised", !.aggregate_demand = 0]
        ELSE [m EXCEPT !.central_bank.interest_rate = BoundInterestRate(interest_rate)]

\* aggregate_demand / total_production raises ZeroDivisionError when
\* total_production is 0: the exception leaves CentralBank.step before any
\* assignment
CentralBank_step(m) ==
    LET cb == m.central_bank
        inflation_gap == m.current_inflation - cb.inflation_target
        output_gap == Ratio(m.aggregate_demand, m.total_production) - Scale
        target_rate ==
            cb.nominal_rate + m.current_inflation
            + Mul(inflation_gap, cb.taylor_inflation_weight)
            + Mul(output_gap, cb.taylor_output_weight)
        adjustment_speed == 5000
        interest_rate == cb.interest_rate + Mul(target_rate - cb.interest_rate, adjustment_speed)
    IN  IF m.total_production = 0
        THEN [m EXCEPT !.pc = "raised"]
        ELSE [m EXCEPT !.central_bank.interest_rate = BoundInterestRate(interest_rate)]

(***************************************************************************)
(* InflationModel.__init__                                                 *)
(***************************************************************************)
InflationModel_init(num_households, num_firms, banking_inclusion_rate, formal_sector_size, inflation_shock_size, hdraw, fdraw) ==
    LET m0 == [pc |-> "idle",
               num_households |-> num_households,
               num_firms |-> num_firms,
               current_inflation |-> INITIAL_INFLATION,
               price_index |-> Scale,
               previous_price_index |-> Scale,
               aggregate_demand |-> 0,
               total_production |-> 0,
               price_index_numerator |-> 0,
               total_production_capacity |-> 0,
               central_bank |-> CentralBank_init(INFLATION_TARGET)]
        hs == 1 .. num_households
        fs == (num_households + 1) .. (num_households + num_firms)
        is_formal_h == [h \in hs |-> hdraw[h].u < banking_inclusion_rate]
        income_factor == [h \in hs |-> IF is_formal_h[h] THEN 12000 ELSE 8000]
        households ==
            [h \in hs |->
                Household_init(m0, is_formal_h[h],
                               Mul(hdraw[h].savings, income_factor[h]),
                               Mul(hdraw[h].base_income, income_factor[h]))]
        is_formal_f == [f \in fs |-> fdraw[f].u < formal_sector_size]
        capacity ==
            [f \in fs |->
                Mul(fdraw[f].base_capacity, IF is_formal_f[f] THEN 13000 ELSE 7000)]
        firms == [f \in fs |-> Firm_init(is_formal_f[f], capacity[f])]
        m1 == [pc |-> "idle",
               num_households |-> num_households,
               num_firms |-> num_firms,
               banking_inclusion_rate |-> banking_inclusion_rate,
               formal_sector_size |-> formal_sector_size,
               \* the argument of the constructor, kept for the properties
               inflation_shock_size |-> inflation_shock_size,
               current_inflation |->
                   IF inflation_shock_size > 0
                   THEN INITIAL_INFLATION + inflation_shock_size
                   ELSE INITIAL_INFLATION,
               price_index |-> Scale,
               previous_price_index |-> Scale,
               aggregate_demand |-> 0,
               total_production |-> 0,
               price_index_numerator |-> 0,
               total_production_capacity |-> SetSum(capacity, fs),
               central_bank |-> m0.central_bank,
               households |-> households,
               firms |-> firms,
               model_vars |-> <<>>,
               \* bookkeeping of the scheduler and of the caller
               stepped |-> [a \in {0} \cup hs \cup fs |-> 0],
               steps_called |-> 0,
               steps_completed |-> 0,
               \* the adjusted_consumption each household last contributed
               consumption |-> [h \in hs |-> <<>>],
               \* the aggregate_demand each firm last read in its step
               demand_read |-> [f \in fs |-> <<>>]]
    IN  MacroCollect(m1)

(***************************************************************************)
(* InflationModel.step, in the scheduler's phases: the reset, one          *)
(* activation per agent in a random order, then finalize and collect.      *)
(***************************************************************************)
\* the reset without aggregate_demand
MacroReset_KeepsDemand(m) ==
    [m EXCEPT !.total_production = 0,
              !.price_index_numerator = 0,
              !.stepped = [a \in DOMAIN @ |-> 0],
              !.steps_called = @ + 1,
              !.pc = "activating"]

MacroReset(m) ==
    [m EXCEPT !.aggregate_demand = 0,
              !.total_production = 0,
              !.price_index_numerator = 0,
              !.stepped = [a \in DOMAIN @ |-> 0],
              !.steps_called = @ + 1,
              !.pc = "activating"]

MacroAgentStep(m, a) ==
    LET m1 == [m EXCEPT !.stepped[a] = @ + 1]
    IN  IF a = 0 THEN CentralBank_step(m1)
        ELSE IF a \in HouseholdIds(m) THEN Household_step(m1, a)
        ELSE Firm_step(m1, a)

MacroFinalize(m) ==
    LET price_index ==
            IF m.total_production > 0
            THEN RDiv(m.price_index_numerator, m.total_production)
            ELSE m.price_index
    IN  MacroCollect(
            [m EXCEPT !.previous_price_index = m.price_index,
                      !.price_index = price_index,
                      !.current_inflation = Ratio(price_index, m.price_index) - Scale,
                      !.steps_completed = @ + 1,
                      !.pc = "idle"])

MacroBuilt == macro.pc # "absent"

MacroInit ==
    /\ \E nh \in 0 .. MaxPopulation, nf \in 0 .. MaxPopulation :
       \E bir \in BankingInclusionRates, fss \in FormalSectorSizes,
          shock \in ShockSizes :
       \E hdraw \in [1 .. nh -> HouseholdDraws],
          fdraw \in [(nh + 1) .. (nh + nf) -> FirmDraws] :
          /\ nh + nf <= MaxPopulation
          /\ macro = InflationModel_init(nh, nf, bir, fss, shock, hdraw, fdraw)
    /\ schelling = NoModel
    /\ twin = NoModel

\* step() is called: the accumulators are reset
MacroStepBegin ==
    /\ MacroBuilt
    /\ macro.pc \in {"idle", "raised"}
    /\ macro.steps_called < MaxTicks
    /\ macro' = MacroReset(macro)
    /\ UNCHANGED <<schelling, twin>>

\* schedule.step(): the next agent of the shuffled order is activated
MacroActivate ==
    /\ MacroBuilt
    /\ macro.pc = "activating"
    /\ \E a \in MacroAgents(macro) :
          /\ macro.stepped[a] = 0
          /\ macro' = MacroAgentStep(macro, a)
    /\ UNCHANGED <<schelling, twin>>

\* every agent was activated: price index, inflation, collect
MacroStepEnd ==
    /\ MacroBuilt
    /\ macro.pc = "activating"
    /\ \A a \in MacroAgents(macro) : macro.stepped[a] = 1
    /\ macro' = MacroFinalize(macro)
    /\ UNCHANGED <<schelling, twin>>

(***************************************************************************)
(* SchellingModel.  A cell is <<x, y>>; grid[c] is the unique_id of the     *)
(* agent on c, or 0.  The grid is mesa's SingleGrid with torus=True, which *)
(* keeps the set of empty cells beside the cells' contents.                *)
(***************************************************************************)
RADIUS == 1
SAMPLE_SIZE == 10
MOVE_COST == 1
SIMILARITY_TOLERANCE == 1000
ADAPTIVE_MOVES == 10
THRESHOLD_STEP == 100

\* -float('inf'): below every score of evaluate_location
NegInf == -(10^9)
\* best_pos = None
NoPos == <<>>

\* width and height of the grids: those of MaxCells - 1 or MaxCells cells
GridShapes ==
    {s \in (1 .. MaxCells) \X (1 .. MaxCells) :
        /\ s[2] <= s[1]
        /\ s[1] * s[2] \in {MaxCells - 1, MaxCells}}
Densities == {0, 5000, Scale}
\* self.random.random() lies in [0, 1)
CellDraws == {2500, 7500}
\* income_class = x / (1 + x) for a lognormal x, and random.uniform(0, 1)
IncomeClasses == {2000, 6000}
Thresholds == {0, 5000}

Cells(w, h) == (0 .. (w - 1)) \X (0 .. (h - 1))

\* position of a cell in grid.coord_iter()
CoordIndex(c, h) == c[1] * h + c[2]

TorusDistance(a, b, n) == Min(Abs(a - b), n - Abs(a - b))

\* grid.get_neighborhood(pos, moore=True, include_center=False, radius)
Neighborhood(m, pos) ==
    {c \in Cells(m.width, m.height) :
        /\ c # pos
        /\ TorusDistance(c[1], pos[1], m.width) <= m.radius
        /\ TorusDistance(c[2], pos[2], m.height) <= m.radius}

\* grid.get_neighbors(pos, moore=True, radius, include_center=False)
get_neighbors(m, pos) ==
    {m.grid[c] : c \in {d \in Neighborhood(m, pos) : m.grid[d] # 0}}

SchellingAgents(m) == DOMAIN m.agents

Similar(m, a, neighbors) ==
    Cardinality({n \in neighbors :
        Abs(m.agents[n].type - m.agents[a].type) <= SIMILARITY_TOLERANCE})

\* is_satisfied with a strict comparison
is_satisfied_Strict(m, a, neighbors) ==
    IF neighbors = {} THEN FALSE
    ELSE Ratio(Similar(m, a, neighbors), Cardinality(neighbors))
            > m.agents[a].threshold

is_satisfied(m, a, neighbors) ==
    IF neighbors = {} THEN FALSE
    ELSE Ratio(Similar(m, a, neighbors), Cardinality(neighbors))
            >= m.agents[a].threshold

evaluate_location(m, a, pos) ==
    LET neighbors == get_neighbors(m, pos)
        share_alike == Ratio(Similar(m, a, neighbors), Cardinality(neighbors))
        effective_cost ==
            m.agents[a].move_cost * Ratio(Scale, m.agents[a].type + 100)
    IN  IF neighbors = {} THEN NegInf ELSE share_alike - effective_cost

\* the loop over the candidates: <<best_pos, best_eval>>
RECURSIVE BestCandidate(_, _, _, _, _)
BestCandidate(m, a, candidates, best_pos, best_eval) ==
    IF candidates = <<>> THEN <<best_pos, best_eval>>
    ELSE LET pos == Head(candidates)
             eval == evaluate_location(m, a, pos)
         IN  IF eval > best_eval
             THEN BestCandidate(m, a, Tail(candidates), pos, eval)
             ELSE BestCandidate(m, a, Tail(candidates), best_pos, best_eval)

\* random.sample(empty_cells, k): the sequences of k distinct empty cells
Samples(S, k) ==
    {q \in [1 .. k -> S] : \A i, j \in 1 .. k : i # j => q[i] # q[j]}

CandidateSamples(m) ==
    Samples(m.empties, Min(Cardinality(m.empties), SAMPLE_SIZE))

\* a move_agent that leaves the agent on its old cell too
move_agent_KeepsOld(m, a, pos) ==
    [m EXCEPT !.grid = [@ EXCEPT ![pos] = a],
              !.empties = @ \ {pos},
              !.agents[a].pos = pos]

\* grid.move_agent(agent, pos) of SingleGrid
move_agent(m, a, pos) ==
    LET old == m.agents[a].pos
    IN  [m EXCEPT !.grid = [@ EXCEPT ![old] = 0, ![pos] = a],
                  !.empties = (@ \ {pos}) \cup {old},
                  !.agents[a].pos = pos]

\* threshold = min(1.0, threshold - 0.01)
AdaptThreshold(threshold) == Min(Scale, threshold - THRESHOLD_STEP)

\* the end of move with the threshold lowered at every move
Relocate_AlwaysAdapts(m, a, best_pos) ==
    LET moved == move_agent(m, a, best_pos)
        past_moves == m.agents[a].past_moves + 1
    IN  IF best_pos = NoPos
        THEN m
        ELSE [moved EXCEPT
                !.agents[a].past_moves = past_moves,
                !.agents[a].threshold = AdaptThreshold(@)]

\* the end of SchellingAgent.move: the move to best_pos, if there is one
Relocate(m, a, best_pos) ==
    LET moved == move_agent(m, a, best_pos)
        past_moves == m.agents[a].past_moves + 1
    IN  IF best_pos = NoPos
        THEN m
        ELSE [moved EXCEPT
                !.agents[a].past_moves = past_moves,
                !.agents[a].threshold =
                    IF m.agents[a].adaptive /\ past_moves >= ADAPTIVE_MOVES
                    THEN AdaptThreshold(@) ELSE @]

\* SchellingAgent.move without the return of the satisfied agent
move_NoReturn(m, a, candidates) ==
    LET neighbors == get_neighbors(m, m.agents[a].pos)
        best_pos == BestCandidate(m, a, candidates, NoPos, NegInf)[1]
        counted == IF is_satisfied(m, a, neighbors)
                   THEN [m EXCEPT !.happy = @ + 1] ELSE m
    IN  Relocate(counted, a, best_pos)

\* SchellingAgent.move with the sample random.sample would return
move(m, a, candidates) ==
    LET neighbors == get_neighbors(m, m.agents[a].pos)
        best_pos == BestCandidate(m, a, candidates, NoPos, NegInf)[1]
    IN  IF is_satisfied(m, a, neighbors)
        THEN [m EXCEPT !.happy = @ + 1]
        ELSE Relocate(m, a, best_pos)

\* no call of move is inside its loop over the candidates
NoLoop == [agent |-> 0]

\* SchellingAgent.move up to the loop: the satisfied agent is counted and
\* returns, the other one enters the loop over k candidates
move_begin(m, a) ==
    LET neighbors == get_neighbors(m, m.agents[a].pos)
    IN  IF is_satisfied(m, a, neighbors)
        THEN [m EXCEPT !.happy = @ + 1]
        ELSE [m EXCEPT
                !.pc = "sampling",
                !.sampling =
                    [agent |-> a,
                     k |-> Min(Cardinality(m.empties), SAMPLE_SIZE),
                     drawn |-> {},
                     best_pos |-> NoPos,
                     best_eval |-> NegInf]]

\* one iteration of the loop, on the next cell pos of the sample
move_draw(m, pos) ==
    LET eval == evaluate_location(m, m.sampling.agent, pos)
        better == eval > m.sampling.best_eval
    IN  [m EXCEPT
            !.sampling.drawn = @ \cup {pos},
            !.sampling.best_pos = IF better THEN pos ELSE @,
            !.sampling.best_eval = IF better THEN eval ELSE @]

\* SchellingAgent.move after the loop
move_end(m) ==
    [Relocate(m, m.sampling.agent, m.sampling.best_pos) EXCEPT
        !.pc = "activating",
        !.sampling = NoLoop]

SchellingAgent_init(pos, income_class, threshold) ==
    [pos |-> pos,
     income_class |-> income_class,
     type |-> income_class,
     threshold |-> threshold,
     past_moves |-> 0,
     adaptive |-> FALSE,
     move_cost |-> MOVE_COST]

share_happy(m) ==
    IF Cardinality(SchellingAgents(m)) > 0
    THEN Ratio(m.happy, Cardinality(SchellingAgents(m))) * 100
    ELSE 0

SchellingSnapshot(m) == [happy |-> m.happy, share_happy |-> share_happy(m)]

SchellingCollect(m) == [m EXCEPT !.model_vars = Append(@, SchellingSnapshot(m))]

\* SchellingModel.__init__: cell c gets an agent when its draw u[c] of the
\* model's seeded stream is below density; attr[i] are the draws of the i-th
\* agent's constructor.  mesa's Model.__init__ sets running to True.
SchellingModel_init(width, height, density, u, attr) ==
    LET cells == Cells(width, height)
        occupied == {c \in cells : u[c] < density}
        id(c) == Cardinality({d \in occupied :
                                CoordIndex(d, height) <= CoordIndex(c, height)})
        cell(i) == CHOOSE c \in occupied : id(c) = i
        grid == [c \in cells |-> IF c \in occupied THEN id(c) ELSE 0]
        agents == [i \in 1 .. Cardinality(occupied) |->
                      SchellingAgent_init(cell(i), attr[i].income_class,
                                          attr[i].threshold)]
    IN  SchellingCollect(
            [pc |-> "idle",
             width |-> width,
             height |-> height,
             density |-> density,
             radius |-> RADIUS,
             grid |-> grid,
             empties |-> cells \ occupied,
             agents |-> agents,
             happy |-> 0,
             running |-> TRUE,
             model_vars |-> <<>>,
             \* bookkeeping of the scheduler and of the caller
             stepped |-> [i \in 1 .. Cardinality(occupied) |-> 0],
             steps_called |-> 0,
             steps_completed |-> 0,
             \* the loop of the call of move that is running, if any
             sampling |-> NoLoop,
             \* the grid and the agents when the last step() began
             before |-> [grid |-> grid, agents |-> agents]])

(***************************************************************************)
(* SchellingModel.step, in the scheduler's phases.                         *)
(***************************************************************************)
\* the reset without the happy counter
SchellingReset_KeepsHappy(m) ==
    [m EXCEPT !.stepped = [a \in DOMAIN @ |-> 0],
              !.steps_called = @ + 1,
              !.before = [grid |-> m.grid, agents |-> m.agents],
              !.pc = "activating"]

SchellingReset(m) ==
    [m EXCEPT !.happy = 0,
              !.stepped = [a \in DOMAIN @ |-> 0],
              !.steps_called = @ + 1,
              !.before = [grid |-> m.grid, agents |-> m.agents],
              !.pc = "activating"]

SchellingAgentStep(m, a, candidates) ==
    move([m EXCEPT !.stepped[a] = @ + 1], a, candidates)

\* the running flag with <= for <
Running_OffByOne(m) == m.happy <= Cardinality(SchellingAgents(m))

\* self.running = self.happy < len(self.agents)
Running(m) == m.happy < Cardinality(SchellingAgents(m))

SchellingFinalize(m) ==
    LET collected == SchellingCollect(m)
    IN  [collected EXCEPT
            !.running = Running(m),
            !.steps_completed = @ + 1,
            !.pc = "idle"]

\* the population of a grid: how many of its cells drew below density
Placed(shape, density, u) ==
    Cardinality({c \in Cells(shape[1], shape[2]) : u[c] < density})

AgentDraws == [income_class : IncomeClasses, threshold : Thresholds]

SchellingBuilt == schelling.pc # "absent"

SchellingInit ==
    /\ \E shape \in GridShapes, density \in Densities :
       \E u \in [Cells(shape[1], shape[2]) -> CellDraws] :
       \E attr \in [1 .. Placed(shape, density, u) -> AgentDraws] :
          schelling = SchellingModel_init(shape[1], shape[2], density, u, attr)
    /\ macro = NoModel
    /\ twin = NoModel

SchellingStepBegin ==
    /\ SchellingBuilt
    /\ schelling.pc = "idle"
    /\ schelling.steps_called < MaxTicks
    /\ schelling' = SchellingReset(schelling)
    /\ UNCHANGED <<macro, twin>>

\* agents.shuffle_do("move"): the next agent of the shuffled order moves
SchellingActivate ==
    /\ SchellingBuilt
    /\ schelling.pc = "activating"
    /\ \E a \in SchellingAgents(schelling) :
          /\ schelling.stepped[a] = 0
          /\ \E candidates \in CandidateSamples(schelling) :
                schelling' = SchellingAgentStep(schelling, a, candidates)
    /\ UNCHANGED <<macro, twin>>

SchellingStepEnd ==
    /\ SchellingBuilt
    /\ schelling.pc = "activating"
    /\ \A a \in SchellingAgents(schelling) : schelling.stepped[a] = 1
    /\ schelling' = SchellingFinalize(schelling)
    /\ UNCHANGED <<macro, twin>>

Init == MacroInit \/ SchellingInit

Next ==
    \/ MacroStepBegin
    \/ MacroActivate
    \/ MacroStepEnd
    \/ SchellingStepBegin
    \/ SchellingActivate
    \/ SchellingStepEnd

Spec == Init /\ [][Next]_vars

(***************************************************************************)
(* Two runs of SchellingModel with the same configuration and the same     *)
(* seed.  seed reaches mesa's Model.__init__, which seeds self.random: the *)
(* placement draws and the shuffles of the two runs are the same.  The     *)
(* agents' attributes come from np.random and from the global random       *)
(* module, and the candidate cells from random.sample of the global        *)
(* module: the seed does not reach them, so each run has its own.          *)
(***************************************************************************)
TwinShapes == {s \in GridShapes : s[1] * s[2] = MaxCells - 1}

TwinBuilt == schelling.pc # "absent" /\ twin.pc # "absent"

TwinInit ==
    /\ \E shape \in TwinShapes, density \in Densities :
       \E u \in [Cells(shape[1], shape[2]) -> CellDraws] :
       \E attrA \in [1 .. Placed(shape, density, u) -> AgentDraws],
          attrB \in [1 .. Placed(shape, density, u) -> AgentDraws] :
          /\ schelling = SchellingModel_init(shape[1], shape[2], density, u, attrA)
          /\ twin = SchellingModel_init(shape[1], shape[2], density, u, attrB)
    /\ macro = NoModel

TwinStepBegin ==
    /\ schelling.pc = "idle"
    /\ schelling.steps_called < MaxTicks
    /\ schelling' = SchellingReset(schelling)
    /\ twin' = SchellingReset(twin)
    /\ UNCHANGED macro

\* the same agent is next in both runs; each run draws its own sample
TwinActivate ==
    /\ schelling.pc = "activating"
    /\ \E a \in SchellingAgents(schelling) :
          /\ schelling.stepped[a] = 0
          /\ \E candidatesA \in CandidateSamples(schelling),
                candidatesB \in CandidateSamples(twin) :
                /\ schelling' = SchellingAgentStep(schelling, a, candidatesA)
                /\ twin' = SchellingAgentStep(twin, a, candidatesB)
    /\ UNCHANGED macro

TwinStepEnd ==
    /\ schelling.pc = "activating"
    /\ \A a \in SchellingAgents(schelling) : schelling.stepped[a] = 1
    /\ schelling' = SchellingFinalize(schelling)
    /\ twin' = SchellingFinalize(twin)
    /\ UNCHANGED macro

TwinNext == TwinStepBegin \/ TwinActivate \/ TwinStepEnd

TwinSpec == TwinInit /\ [][TwinNext]_vars

(***************************************************************************)
(* SchellingModel on a grid with more empty cells than SAMPLE_SIZE, where   *)
(* random.sample returns a part of the empty cells.  move is taken one      *)
(* iteration of its loop at a time; the elements of the sample are drawn    *)
(* as the loop reaches them, any empty cell not drawn yet being the next.   *)
(* The grid is a ring long enough for a whole sample to lie outside the     *)
(* neighbourhoods of an agent; agents are drawn on its first cells only.    *)
(***************************************************************************)
SampleShape == <<SAMPLE_SIZE + 3, 1>>
SampleDensity == 5000
\* the draws of the placement: no agent beyond the first two cells
SampleCellDraws ==
    {u \in [Cells(SampleShape[1], SampleShape[2]) -> CellDraws] :
        \A c \in Cells(SampleShape[1], SampleShape[2]) :
            c[1] >= 2 => u[c] >= SampleDensity}

SampleInit ==
    /\ \E u \in SampleCellDraws :
       \E attr \in [1 .. Placed(SampleShape, SampleDensity, u) -> AgentDraws] :
          schelling = SchellingModel_init(SampleShape[1], SampleShape[2],
                                          SampleDensity, u, attr)
    /\ macro = NoModel
    /\ twin = NoModel

\* the next agent of the shuffled order begins its move
SampleBeginMove ==
    /\ schelling.pc = "activating"
    /\ \E a \in SchellingAgents(schelling) :
          /\ schelling.stepped[a] = 0
          /\ schelling' = move_begin([schelling EXCEPT !.stepped[a] = @ + 1], a)
    /\ UNCHANGED <<macro, twin>>

SampleDraw ==
    /\ schelling.pc = "sampling"
    /\ Cardinality(schelling.sampling.drawn) < schelling.sampling.k
    /\ \E pos \in schelling.empties \ schelling.sampling.drawn :
          schelling' = move_draw(schelling, pos)
    /\ UNCHANGED <<macro, twin>>

SampleEndMove ==
    /\ schelling.pc = "sampling"
    /\ Cardinality(schelling.sampling.drawn) = schelling.sampling.k
    /\ schelling' = move_end(schelling)
    /\ UNCHANGED <<macro, twin>>

SampleNext ==
    \/ SchellingStepBegin
    \/ SampleBeginMove
    \/ SampleDraw
    \/ SampleEndMove
    \/ SchellingStepEnd

SampleSpec == SampleInit /\ [][SampleNext]_vars

(***************************************************************************)
(* Constructions with a configuration outside its range: a rate or a       *)
(* density outside [0, 1], or a negative number of firms, for which        *)
(* range() is empty.  A negative number of households is left out: it      *)
(* makes range() give a firm the unique_id 0 of the central bank.          *)
(***************************************************************************)
OutOfRangeRates == {-1000, 15000}
OutOfRangeDensities == {-2000, 12000}

MacroConfigInRange(m) ==
    /\ m.num_households >= 0
    /\ m.num_firms >= 0
    /\ m.banking_inclusion_rate >= 0 /\ m.banking_inclusion_rate <= Scale
    /\ m.formal_sector_size >= 0 /\ m.formal_sector_size <= Scale

SchellingConfigInRange(m) == m.density >= 0 /\ m.density <= Scale

ConfigInit ==
    \/ /\ \E nh \in 0 .. MaxPopulation, nf \in -1 .. MaxPopulation :
           \E bir \in BankingInclusionRates \cup OutOfRangeRates,
              fss \in FormalSectorSizes \cup OutOfRangeRates :
           \E hdraw \in [1 .. nh -> HouseholdDraws],
              fdraw \in [(nh + 1) .. (nh + nf) -> FirmDraws] :
              /\ nh + nf <= MaxPopulation
              /\ macro = InflationModel_init(nh, nf, bir, fss, 0, hdraw, fdraw)
              /\ ~MacroConfigInRange(macro)
        /\ schelling = NoModel
        /\ twin = NoModel
    \/ /\ \E shape \in GridShapes, density \in OutOfRangeDensities :
           \E u \in [Cells(shape[1], shape[2]) -> CellDraws] :
           \E attr \in [1 .. Placed(shape, density, u) -> AgentDraws] :
              schelling = SchellingModel_init(shape[1], shape[2], density, u, attr)
        /\ macro = NoModel
        /\ twin = NoModel

ConfigSpec == ConfigInit /\ [][Next]_vars

(***************************************************************************)
(* Properties.                                                             *)
(***************************************************************************)
MacroStepReturned == macro.pc # "activating" /\ macro.steps_called > 0
SchellingStepReturned == schelling.pc # "activating" /\ schelling.steps_called > 0

\* C1: in every tick of either model, whatever the activation order, each
\* registered agent's step is invoked exactly once: never twice, and when the
\* call of step() is over no agent is left un-stepped.
C1_EveryAgentSteppedOncePerTick ==
    /\ MacroBuilt =>
          /\ \A a \in MacroAgents(macro) : macro.stepped[a] <= 1
          /\ MacroStepReturned => \A a \in MacroAgents(macro) : macro.stepped[a] = 1
    /\ SchellingBuilt =>
          /\ \A a \in SchellingAgents(schelling) : schelling.stepped[a] <= 1
          /\ SchellingStepReturned =>
                \A a \in SchellingAgents(schelling) : schelling.stepped[a] = 1

\* C2: in every reachable state of the macro model, and in every collected
\* snapshot, the central bank's interest_rate lies in [0.01, 0.20].
C2_InterestRateBounded ==
    MacroBuilt =>
        /\ macro.central_bank.interest_rate >= RATE_MIN
        /\ macro.central_bank.interest_rate <= RATE_MAX
        /\ \A i \in DOMAIN macro.model_vars :
              /\ macro.model_vars[i].Interest_Rate >= RATE_MIN
              /\ macro.model_vars[i].Interest_Rate <= RATE_MAX

\* the central bank has stepped and its rate sits on the lower bound
C2_Witness ==
    /\ MacroBuilt
    /\ macro.steps_completed >= 1
    /\ macro.central_bank.interest_rate = RATE_MIN

\* C3: the consumption a household adds to aggregate_demand in its step is at
\* least 0.2 x its income.
C3_ConsumptionAtLeastSubsistence ==
    MacroBuilt =>
        \A h \in HouseholdIds(macro) :
            macro.consumption[h] # <<>> =>
                macro.consumption[h][1] * Scale
                    >= SUBSISTENCE_SHARE * macro.households[h].income

\* a household has stepped and consumed exactly 0.2 x income
C3_Witness ==
    /\ MacroBuilt
    /\ \E h \in HouseholdIds(macro) :
          /\ macro.consumption[h] # <<>>
          /\ macro.consumption[h][1] * Scale
                = SUBSISTENCE_SHARE * macro.households[h].income

\* C4: for every firm with positive production_capacity, at construction and
\* after every Firm.step, current_production / production_capacity lies in
\* [0.5, 1.0].
C4_UtilizationBounded ==
    MacroBuilt =>
        \A f \in FirmIds(macro) :
            macro.firms[f].production_capacity > 0 =>
                /\ macro.firms[f].current_production * Scale
                      >= UTILIZATION_MIN * macro.firms[f].production_capacity
                /\ macro.firms[f].current_production * Scale
                      <= UTILIZATION_MAX * macro.firms[f].production_capacity

\* a firm has stepped and produces at full capacity
C4_Witness ==
    /\ MacroBuilt
    /\ \E f \in FirmIds(macro) :
          /\ macro.stepped[f] = 1
          /\ macro.firms[f].production_capacity > 0
          /\ macro.firms[f].current_production = macro.firms[f].production_capacity

IsPrefix(s, t) == Len(s) <= Len(t) /\ \A i \in 1 .. Len(s) : s[i] = t[i]

\* C5: for both models the model-level series hold one entry after
\* construction and k + 1 entries after k completed calls of step(); a step
\* appends at most one entry and changes or removes no earlier one.
C5_SeriesGrowByOnePerTick ==
    /\ [](/\ MacroBuilt => Len(macro.model_vars) = macro.steps_completed + 1
          /\ SchellingBuilt =>
                Len(schelling.model_vars) = schelling.steps_completed + 1)
    /\ [][/\ MacroBuilt =>
                /\ IsPrefix(macro.model_vars, macro'.model_vars)
                /\ Len(macro'.model_vars) <= Len(macro.model_vars) + 1
          /\ SchellingBuilt =>
                /\ IsPrefix(schelling.model_vars, schelling'.model_vars)
                /\ Len(schelling'.model_vars) <= Len(schelling.model_vars) + 1]_vars

\* two calls of step() of a macro model have completed
C5_Witness ==
    /\ MacroBuilt
    /\ macro.steps_completed = 2
    /\ Len(macro.model_vars) = 3

\* C6: two runs with the same configuration and the same seed, stepped the
\* same number of times, have the same metric series.
C6_SameSeedSameSeries ==
    TwinBuilt =>
        (schelling.steps_completed = twin.steps_completed
            => schelling.model_vars = twin.model_vars)

AllThresholdsZero ==
    \A a \in SchellingAgents(schelling) : schelling.agents[a].threshold = 0

FirstStepDone == schelling.pc = "idle" /\ schelling.steps_completed = 1

\* C7 as claimed: if every agent's threshold is 0, the first step() ends with
\* happy equal to the number of agents and running false, for every placement.
C7_ZeroThresholdConverges ==
    (SchellingBuilt /\ AllThresholdsZero /\ FirstStepDone) =>
        /\ schelling.happy = Cardinality(SchellingAgents(schelling))
        /\ ~schelling.running

\* No agent has moved, so the grid is the one of the construction, and every
\* agent has an agent in its neighbourhood.
EveryAgentPlacedWithNeighbor ==
    \A a \in SchellingAgents(schelling) :
        /\ schelling.agents[a].past_moves = 0
        /\ get_neighbors(schelling, schelling.agents[a].pos) # {}

\* C7 amended: if every agent's threshold is 0 and every agent is placed with
\* at least one agent in its neighbourhood, the first step() ends with happy
\* equal to the number of agents and running false, for every activation order.
C7_ZeroThresholdConvergesWithNeighbors ==
    (SchellingBuilt /\ AllThresholdsZero /\ FirstStepDone
        /\ EveryAgentPlacedWithNeighbor) =>
        /\ schelling.happy = Cardinality(SchellingAgents(schelling))
        /\ ~schelling.running

\* three agents of threshold 0, each with a neighbour, after the first step
C7_Witness ==
    /\ SchellingBuilt
    /\ AllThresholdsZero
    /\ FirstStepDone
    /\ EveryAgentPlacedWithNeighbor
    /\ Cardinality(SchellingAgents(schelling)) = 3
    /\ schelling.happy = 3

\* C8: a macro model with no household and one firm, after one step(), for
\* every activation order: total_production is the firm's current_production,
\* price_index its price_level, current_inflation is price_level / 1.0 - 1.
C8_SingleFirmAfterOneStep ==
    (MacroBuilt /\ macro.num_households = 0 /\ macro.num_firms = 1
        /\ MacroStepReturned /\ macro.steps_called = 1) =>
        /\ macro.total_production = macro.firms[1].current_production
        /\ macro.price_index = macro.firms[1].price_level
        /\ macro.current_inflation = Ratio(macro.firms[1].price_level, Scale) - Scale

SnapshotsAllZero ==
    \A i \in DOMAIN schelling.model_vars :
        /\ schelling.model_vars[i].happy = 0
        /\ schelling.model_vars[i].share_happy = 0

\* C9 as claimed: with density 0 no agent is placed, every collected happy and
\* share_happy is 0, and running is false from the construction on.
C9_EmptyGridNeverRuns ==
    (SchellingBuilt /\ schelling.density = 0) =>
        /\ SchellingAgents(schelling) = {}
        /\ schelling.empties = Cells(schelling.width, schelling.height)
        /\ SnapshotsAllZero
        /\ ~schelling.running

\* C9 amended: with density 0 no agent is placed, every collected happy and
\* share_happy is 0, and running is true after the construction and false
\* once the first step() has completed.
C9_EmptyGridStopsAtFirstStep ==
    (SchellingBuilt /\ schelling.density = 0) =>
        /\ SchellingAgents(schelling) = {}
        /\ schelling.empties = Cells(schelling.width, schelling.height)
        /\ SnapshotsAllZero
        /\ schelling.running <=> schelling.steps_completed = 0

\* a model of density 0 after its first step
C9_Witness ==
    /\ SchellingBuilt
    /\ schelling.density = 0
    /\ schelling.steps_completed = 1
    /\ Len(schelling.model_vars) = 2
    /\ ~schelling.running

\* C10: a formal household with income 100 and savings 100 that steps while
\* interest_rate is 0.05 adds 78.0 to aggregate_demand and ends with savings
\* 122.0.
C10_FormalHouseholdScenario ==
    [][MacroBuilt =>
        \A h \in HouseholdIds(macro) :
            (/\ macro.households[h].formal
             /\ macro.households[h].income = 10000
             /\ macro.households[h].savings = 10000
             /\ macro.central_bank.interest_rate = 500
             /\ macro.stepped[h] = 0
             /\ macro'.stepped[h] = 1) =>
                /\ macro'.aggregate_demand - macro.aggregate_demand = 7800
                /\ macro'.households[h].savings = 12200]_vars

\* such a household has stepped: it consumed 78.0 and holds 122.0
C10_Witness ==
    /\ MacroBuilt
    /\ \E h \in HouseholdIds(macro) :
          /\ macro.households[h].formal
          /\ macro.households[h].income = 10000
          /\ macro.consumption[h] = <<7800>>
          /\ macro.households[h].savings = 12200

\* C11: a model constructed with a configuration outside its range
\* (banking_inclusion_rate, formal_sector_size or density outside [0, 1], or a
\* negative agent count) ends in a configuration error raised before any agent
\* is created: it never holds an agent or a collected snapshot.
C11_OutOfRangeConfigRejected ==
    /\ (MacroBuilt /\ ~MacroConfigInRange(macro)) =>
            /\ macro.pc = "config_error"
            /\ HouseholdIds(macro) = {} /\ FirmIds(macro) = {}
            /\ macro.model_vars = <<>>
    /\ (SchellingBuilt /\ ~SchellingConfigInRange(schelling)) =>
            /\ schelling.pc = "config_error"
            /\ SchellingAgents(schelling) = {}
            /\ schelling.model_vars = <<>>

\* C12: whenever total_production is 0 in a tick of the macro model (in
\* particular with no firm), step() still completes: no error leaves it, the
\* price_index keeps its previous value and a snapshot of the tick is appended.
C12_ZeroProductionStepCompletes ==
    (MacroBuilt /\ MacroStepReturned /\ macro.total_production = 0) =>
        /\ macro.pc = "idle"
        /\ macro.steps_completed = macro.steps_called
        /\ macro.price_index = macro.previous_price_index
        /\ Len(macro.model_vars) = macro.steps_called + 1

\* a firm is activated in this step of the model
FirmActivated(f) ==
    /\ macro.pc = "activating"
    /\ macro.stepped[f] = 0
    /\ macro'.stepped[f] = 1

\* C13: in every tick and every activation order, the
\* aggregate_demand a firm reads in Firm.step is the final aggregate_demand of
\* the previous tick, the value of the previous snapshot.
C13_FirmReadsPreviousTickDemand ==
    [][MacroBuilt =>
        \A f \in FirmIds(macro) :
            FirmActivated(f) =>
                macro'.demand_read[f] =
                    <<macro.model_vars[Len(macro.model_vars)].Aggregate_Demand>>]_vars

\* the last call of step() has completed and no other has begun
MacroTickCompleted == macro.pc = "idle" /\ macro.steps_completed >= 1

\* C14: at every snapshot after a completed tick of the macro model,
\* aggregate_demand is the sum of the consumption of all households in that
\* tick, total_production the sum of the firms' current_production and
\* price_index_numerator the sum of price_level x current_production; nothing
\* is carried over from an earlier tick, and the values stay as collected
\* until the next step() begins.
C14_AccumulatorsAreTickSums ==
    (MacroBuilt /\ MacroTickCompleted) =>
        LET hs == HouseholdIds(macro)
            fs == FirmIds(macro)
            snapshot == macro.model_vars[Len(macro.model_vars)]
        IN  /\ macro.aggregate_demand
                  = SetSum([h \in hs |-> macro.consumption[h][1]], hs)
            /\ macro.total_production
                  = SetSum([f \in fs |-> macro.firms[f].current_production], fs)
            /\ macro.price_index_numerator
                  = SetSum([f \in fs |-> macro.firms[f].price_level
                                            * macro.firms[f].current_production], fs)
            /\ snapshot.Aggregate_Demand = macro.aggregate_demand
            /\ snapshot.Total_Production = macro.total_production

\* two ticks have completed in a model with a household and a firm
C14_Witness ==
    /\ MacroBuilt
    /\ macro.pc = "idle"
    /\ macro.steps_completed = 2
    /\ macro.num_households = 1 /\ macro.num_firms = 1
    /\ macro.aggregate_demand > 0
    /\ macro.total_production > 0
    /\ Len(macro.model_vars) = 3

\* C15: for every inflation_shock_size, positive, zero or negative, the
\* Inflation of the tick-0 snapshot is initial_inflation + inflation_shock_size:
\* the shock is added once, after the agents are created (their expectations
\* start from initial_inflation) and before the first collect.
C15_ShockAddedOnce ==
    MacroBuilt =>
        /\ macro.model_vars[1].Inflation
              = INITIAL_INFLATION + macro.inflation_shock_size
        /\ macro.steps_called = 0 =>
              /\ macro.current_inflation
                    = INITIAL_INFLATION + macro.inflation_shock_size
              /\ \A h \in HouseholdIds(macro) :
                    macro.households[h].expected_inflation = INITIAL_INFLATION

\* value is the mean expected_inflation of the households hs, to the rounding
\* of the division, or current_inflation when hs is empty
IsMeanExpectation(value, hs) ==
    IF hs = {} THEN value = macro.current_inflation
    ELSE 2 * Abs(Cardinality(hs) * value
                 - SetSum([h \in hs |-> macro.households[h].expected_inflation], hs))
            <= Cardinality(hs)

FormalHouseholds == {h \in HouseholdIds(macro) : macro.households[h].formal}

\* C16: in every state of the macro model the three accessors return the mean
\* expected_inflation of all, of the formal and of the informal households when
\* that subpopulation is not empty, and current_inflation when it is; computing
\* them changes nothing, so the values of a snapshot are the accessors' values
\* in the state that was collected.
C16_AccessorsReturnMeanOrFallback ==
    MacroBuilt =>
        /\ IsMeanExpectation(get_average_inflation_expectation(macro),
                             HouseholdIds(macro))
        /\ IsMeanExpectation(get_formal_inflation_expectation(macro),
                             FormalHouseholds)
        /\ IsMeanExpectation(get_informal_inflation_expectation(macro),
                             HouseholdIds(macro) \ FormalHouseholds)
        /\ macro.pc = "idle" =>
              LET snapshot == macro.model_vars[Len(macro.model_vars)]
              IN  /\ IsMeanExpectation(snapshot.Formal_Inflation_Expectation,
                                       FormalHouseholds)
                  /\ IsMeanExpectation(snapshot.Informal_Inflation_Expectation,
                                       HouseholdIds(macro) \ FormalHouseholds)

\* a formal and an informal household have stepped and expect different
\* inflation, and the formal accessor returns the formal household's
C16_Witness ==
    /\ MacroBuilt
    /\ \E h1 \in FormalHouseholds, h2 \in HouseholdIds(macro) \ FormalHouseholds :
          /\ macro.stepped[h1] = 1
          /\ macro.stepped[h2] = 1
          /\ macro.households[h1].expected_inflation
                # macro.households[h2].expected_inflation
          /\ get_formal_inflation_expectation(macro)
                = macro.households[h1].expected_inflation

\* C19: in SchellingAgent.move an unsatisfied agent with a non-empty set of
\* empty cells always relocates: the call ends with the agent on the sampled
\* candidate of the highest score, the first of the sample on a tie, and with
\* past_moves grown by 1; it stays in place, not counted happy, only when no
\* cell is empty.
C19_UnsatisfiedAgentRelocates ==
    [][SchellingBuilt =>
        /\ (schelling.pc = "sampling" /\ schelling'.pc = "sampling"
                /\ schelling'.sampling.best_pos # schelling.sampling.best_pos) =>
              schelling'.sampling.best_eval > schelling.sampling.best_eval
        /\ (schelling.pc = "sampling" /\ schelling'.pc = "activating") =>
              LET a == schelling.sampling.agent
                  sample == schelling.sampling.drawn
              IN  IF schelling.empties # {}
                  THEN /\ schelling'.agents[a].pos \in sample
                       /\ \A c \in sample :
                             evaluate_location(schelling, a, schelling'.agents[a].pos)
                                >= evaluate_location(schelling, a, c)
                       /\ schelling'.agents[a].past_moves
                             = schelling.agents[a].past_moves + 1
                  ELSE /\ schelling'.agents[a].pos = schelling.agents[a].pos
                       /\ schelling'.happy = schelling.happy]_vars

OccupiedCells ==
    {c \in Cells(schelling.width, schelling.height) : schelling.grid[c] # 0}

\* C17: in every state of the spatial model each cell holds at most one agent,
\* each agent occupies exactly one cell, empties is exactly the set of cells
\* without an agent, and the number of agents is the number placed at the
\* construction: no step adds or removes an agent.
C17_GridConsistent ==
    /\ [](SchellingBuilt =>
            /\ \A a \in SchellingAgents(schelling) :
                  /\ schelling.agents[a].pos
                        \in Cells(schelling.width, schelling.height)
                  /\ {c \in OccupiedCells : schelling.grid[c] = a}
                        = {schelling.agents[a].pos}
            /\ \A a, b \in SchellingAgents(schelling) :
                  a # b => schelling.agents[a].pos # schelling.agents[b].pos
            /\ \A c \in OccupiedCells : schelling.grid[c] \in SchellingAgents(schelling)
            /\ schelling.empties
                  = Cells(schelling.width, schelling.height) \ OccupiedCells
            /\ Cardinality(OccupiedCells) = Cardinality(SchellingAgents(schelling)))
    /\ [][SchellingBuilt =>
            SchellingAgents(schelling') = SchellingAgents(schelling)]_vars

\* an agent has moved on a grid with two agents or more and an empty cell
C17_Witness ==
    /\ SchellingBuilt
    /\ Cardinality(SchellingAgents(schelling)) >= 2
    /\ schelling.empties # {}
    /\ \E a \in SchellingAgents(schelling) :
          /\ schelling.agents[a].past_moves >= 1
          /\ schelling.grid[schelling.agents[a].pos] = a

\* C18: after every step() of the spatial model running is false exactly when
\* happy equals the number of agents; happy is reset to 0 when the step begins
\* and grows by at most one per activated agent, so that 0 <= happy <= number
\* of agents in every state and in every snapshot.
C18_RunningIffNotAllHappy ==
    SchellingBuilt =>
        LET N == Cardinality(SchellingAgents(schelling))
            activated == {a \in SchellingAgents(schelling) : schelling.stepped[a] = 1}
        IN  /\ (schelling.pc = "idle" /\ schelling.steps_completed >= 1) =>
                  (~schelling.running <=> schelling.happy = N)
            /\ schelling.happy >= 0 /\ schelling.happy <= N
            /\ schelling.pc # "idle" => schelling.happy <= Cardinality(activated)
            /\ \A i \in DOMAIN schelling.model_vars :
                  /\ schelling.model_vars[i].happy >= 0
                  /\ schelling.model_vars[i].happy <= N

\* the second step has ended with each of two agents or more happy; the first
\* had ended with an unhappy agent, and running true
C18_Witness ==
    /\ SchellingBuilt
    /\ schelling.pc = "idle"
    /\ schelling.steps_completed = 2
    /\ Cardinality(SchellingAgents(schelling)) >= 2
    /\ schelling.happy = Cardinality(SchellingAgents(schelling))
    /\ schelling.model_vars[2].happy < schelling.happy
    /\ ~schelling.running

SteppedIn(ids) == {a \in ids : macro.stepped[a] = 1}

\* C21: if an agent's step raises during the activation phase of
\* InflationModel.step, the error leaves step(): no other agent is activated,
\* finalize and collect do not run, so price_index, previous_price_index,
\* current_inflation and the length of the series are those of before the
\* call, and what the reset and the agents activated earlier did is kept.
C21_RaisedStepAbortsTick ==
    /\ [](MacroBuilt /\ macro.pc = "raised" =>
            /\ macro.steps_completed < macro.steps_called
            /\ Len(macro.model_vars) = macro.steps_completed + 1
            /\ macro.aggregate_demand
                  = SetSum([h \in SteppedIn(HouseholdIds(macro)) |->
                               macro.consumption[h][1]],
                           SteppedIn(HouseholdIds(macro)))
            /\ macro.total_production
                  = SetSum([f \in SteppedIn(FirmIds(macro)) |->
                               macro.firms[f].current_production],
                           SteppedIn(FirmIds(macro))))
    /\ [][MacroBuilt =>
            /\ macro'.pc \in {"activating", "raised"} =>
                  /\ macro'.price_index = macro.price_index
                  /\ macro'.previous_price_index = macro.previous_price_index
                  /\ macro'.current_inflation = macro.current_inflation
                  /\ macro'.model_vars = macro.model_vars
                  /\ macro'.steps_completed = macro.steps_completed
            /\ macro.pc = "raised" =>
                  /\ macro'.pc = "activating"
                  /\ macro'.steps_called = macro.steps_called + 1]_vars

\* the second tick was aborted by the central bank after a household had
\* consumed and before any firm had produced; the first tick had completed
C21_Witness ==
    /\ MacroBuilt
    /\ macro.pc = "raised"
    /\ macro.steps_called = 2
    /\ macro.steps_completed = 1
    /\ Len(macro.model_vars) = 2
    /\ macro.stepped[0] = 1
    /\ macro.aggregate_demand > 0
    /\ macro.total_production = 0
    /\ \E f \in FirmIds(macro) : macro.stepped[f] = 0

\* a step() has ended with every agent happy: snapshot 1 is the construction's
Converged ==
    \E i \in 2 .. Len(schelling.model_vars) :
        schelling.model_vars[i].happy = Cardinality(SchellingAgents(schelling))

\* nothing has changed since the last step() began
UnchangedSinceStepBegan ==
    /\ schelling.grid = schelling.before.grid
    /\ schelling.agents = schelling.before.agents

\* C22: convergence of the spatial model is absorbing.  If a step() ends with
\* happy equal to the number of agents, no agent changed cell, past_moves or
\* threshold during that step, and every later step() leaves the grid as it
\* is and ends with happy equal to the number of agents and running false.
C22_ConvergenceIsAbsorbing ==
    (SchellingBuilt /\ Converged) =>
        LET N == Cardinality(SchellingAgents(schelling))
        IN  /\ UnchangedSinceStepBegan
            /\ \A i, j \in 2 .. Len(schelling.model_vars) :
                  (i <= j /\ schelling.model_vars[i].happy = N) =>
                      schelling.model_vars[j].happy = N
            /\ schelling.pc = "idle" =>
                  /\ schelling.happy = N
                  /\ ~schelling.running

\* two agents or more, all happy at the end of the first step and again at the
\* end of the second, on a grid with an empty cell
C22_Witness ==
    /\ SchellingBuilt
    /\ schelling.pc = "idle"
    /\ schelling.steps_completed = 2
    /\ Cardinality(SchellingAgents(schelling)) >= 2
    /\ schelling.empties # {}
    /\ schelling.model_vars[2].happy = Cardinality(SchellingAgents(schelling))
    /\ schelling.model_vars[3].happy = Cardinality(SchellingAgents(schelling))
    /\ UnchangedSinceStepBegan
    /\ ~schelling.running

====
